---- MODULE Spec2Model ----
(***************************************************************************)
(* csv-processor.py: a run of process_csv_file, the pandas loader it       *)
(* calls, and the three column summaries it writes.                        *)
(*                                                                         *)
(* Text is a sequence of one-character strings, so that trimming, the      *)
(* null-token test and the ordinal comparison of labels are computed       *)
(* character by character.                                                 *)
(***************************************************************************)
EXTENDS Integers, Sequences, FiniteSets, TLC

VARIABLES
    pc,                     \* position of the run inside main / process_csv_file
    file,                   \* what is at input_file_path
    clock,                  \* the wall clock, in seconds after midnight
    run,                    \* number of the current invocation of the program
    now,                    \* the clock reading datetime.now() returned
    timestamp,              \* process_csv_file's local `timestamp`
    hostnames,              \* process_csv_file's local `hostnames` (a Series)
    operating_systems,      \* process_csv_file's local `operating_systems`
    vulnerabilities,        \* process_csv_file's local `vulnerabilities`
    os_counts,              \* process_os_summary's final `os_counts`
    hostname_counts,        \* process_hostname_summary's final `hostname_counts`
    vuln_counts,            \* process_vulnerability_summary's final `vuln_counts`
    os_summary_path,        \* value returned by process_os_summary
    hostname_summary_path,  \* value returned by process_hostname_summary
    vuln_summary_path,      \* value returned by process_vulnerability_summary
    invoked,                \* the summary functions called so far in this run
    printed,                \* the report paths listed by the success summary
    success,                \* main's `success`: what process_csv_file returned
    exit_code,              \* the exit code of the process
    disk                    \* the report files in the output directory

vars == << pc, file, clock, run, now, timestamp, hostnames, operating_systems,
           vulnerabilities, os_counts, hostname_counts, vuln_counts,
           os_summary_path, hostname_summary_path, vuln_summary_path,
           invoked, printed, success, exit_code, disk >>

-----------------------------------------------------------------------------
(* Bounds of the model. *)

\* longest column handed directly to the summary functions (SpecSummary)
MaxLen == 3
\* most data rows of an input file (Spec, SpecRuns)
MaxRows == 2
\* most invocations of the program into one output directory (SpecRuns)
MaxRuns == 2
\* most seconds the wall clock advances (SpecRuns)
MaxClock == 2

-----------------------------------------------------------------------------
(* Text. *)

\* Unicode code points of the characters the model's texts are made of.
ord(c) ==
    CASE c = "\t" -> 9   [] c = " " -> 32  [] c = "-" -> 45  [] c = "." -> 46
      [] c = "/" -> 47   [] c = "0" -> 48  [] c = "1" -> 49  [] c = "2" -> 50
      [] c = "3" -> 51   [] c = "4" -> 52  [] c = "5" -> 53  [] c = "6" -> 54
      [] c = "7" -> 55   [] c = "8" -> 56  [] c = "9" -> 57  [] c = "A" -> 65
      [] c = "L" -> 76   [] c = "N" -> 78  [] c = "U" -> 85  [] c = "W" -> 87
      [] c = "_" -> 95   [] c = "a" -> 97  [] c = "c" -> 99  [] c = "d" -> 100
      [] c = "e" -> 101  [] c = "h" -> 104 [] c = "i" -> 105 [] c = "k" -> 107
      [] c = "l" -> 108  [] c = "m" -> 109 [] c = "n" -> 110 [] c = "o" -> 111
      [] c = "r" -> 114  [] c = "s" -> 115 [] c = "t" -> 116 [] c = "u" -> 117
      [] c = "v" -> 118  [] c = "w" -> 119 [] c = "x" -> 120 [] c = "y" -> 121

\* The characters str.strip() removes and the regex class \s matches.
Whitespace == {" ", "\t"}

RECURSIVE lstrip(_)
lstrip(s) ==
    IF s # << >> /\ Head(s) \in Whitespace THEN lstrip(Tail(s)) ELSE s

RECURSIVE rstrip(_)
rstrip(s) ==
    IF s # << >> /\ s[Len(s)] \in Whitespace
    THEN rstrip(SubSeq(s, 1, Len(s) - 1))
    ELSE s

\* str.strip()
strip(s) == rstrip(lstrip(s))

\* Python's < on str: lexicographic by code point, a proper prefix first.
RECURSIVE str_lt(_, _)
str_lt(a, b) ==
    IF b = << >> THEN FALSE
    ELSE IF a = << >> THEN TRUE
    ELSE IF ord(Head(a)) # ord(Head(b)) THEN ord(Head(a)) < ord(Head(b))
    ELSE str_lt(Tail(a), Tail(b))

Digit(d) == << "0", "1", "2", "3", "4", "5", "6", "7", "8", "9" >>[d + 1]

\* str(n) of a non-negative int
RECURSIVE int_str(_)
int_str(n) ==
    IF n < 10 THEN << Digit(n) >> ELSE int_str(n \div 10) \o << Digit(n % 10) >>

\* "%02d" % n, the width-two fields of strftime
two_digits(n) == << Digit((n \div 10) % 10), Digit(n % 10) >>

Range(s) == {s[i] : i \in DOMAIN s}

RECURSIVE SeqsUpTo(_, _)
SeqsUpTo(S, n) ==
    IF n = 0 THEN {<< >>}
    ELSE LET shorter == SeqsUpTo(S, n - 1)
         IN  shorter \cup {Append(s, x) : s \in {t \in shorter : Len(t) = n - 1}, x \in S}

-----------------------------------------------------------------------------
(* Values of a pandas Series. *)

StrValue(t) == [kind |-> "str", text |-> t, n |-> 0]
IntValue(k) == [kind |-> "int64", text |-> << >>, n |-> k]
FloatValue(k) == [kind |-> "float64", text |-> << >>, n |-> k]
NaN == [kind |-> "nan", text |-> << >>, n |-> 0]

\* One element of Series.astype(str), as pandas 1 and 2 compute it: str(x)
\* of the element.  A float64 with an integral value prints with ".0", the
\* float NaN prints as nan.
astype_str(v) ==
    CASE v.kind = "str" -> v.text
      [] v.kind = "int64" -> int_str(v.n)
      [] v.kind = "float64" -> int_str(v.n) \o << ".", "0" >>
      [] v.kind = "nan" -> << "n", "a", "n" >>

\* pd.NA inside a cleaned Series; no text equals it.
NA == << "pd.NA" >>

Unknown == << "U", "n", "k", "n", "o", "w", "n" >>

\* The list with the tokens matched in any letter case
NullTokens_any_case ==
    { << >>, << "n", "a", "n" >>,
      << "N", "a", "N" >>,
      << "N", "A", "N" >>,
      << "n", "u", "l", "l" >>,
      << "N", "u", "l", "l" >>,
      << "N", "U", "L", "L" >> }

\* The list every summary function hands to Series.replace.
NullTokens ==
    { << >>,
      << "n", "a", "n" >>,
      << "N", "a", "N" >>,
      << "n", "u", "l", "l" >>,
      << "N", "U", "L", "L" >> }

\* re: ^\s*$ finds a match in s.
blank_regex(s) == \A i \in DOMAIN s : s[i] \in Whitespace

\* column.astype(str) with the .str.strip() left out
cleaned_untrimmed(column) == [i \in DOMAIN column |-> astype_str(column[i])]

\* column.astype(str).str.strip()
cleaned(column) == [i \in DOMAIN column |-> strip(astype_str(column[i]))]

\* s.replace([...], value) followed by s.replace(r'^\s*$', value, regex=True)
replace_nulls(s, value) ==
    LET listed == [i \in DOMAIN s |-> IF s[i] \in NullTokens THEN value ELSE s[i]]
    IN  [i \in DOMAIN listed |->
            IF listed[i] # NA /\ blank_regex(listed[i]) THEN value ELSE listed[i]]

\* Series.dropna()
RECURSIVE dropna(_)
dropna(s) ==
    IF s = << >> THEN << >>
    ELSE IF Head(s) = NA THEN dropna(Tail(s))
    ELSE << Head(s) >> \o dropna(Tail(s))

Occurrences(s, x) == Cardinality({i \in DOMAIN s : s[i] = x})

\* The distinct elements of s in the order of their first appearance.
RECURSIVE unique(_)
unique(s) ==
    IF s = << >> THEN << >>
    ELSE LET before == unique(SubSeq(s, 1, Len(s) - 1))
         IN  IF s[Len(s)] \in Range(before) THEN before ELSE Append(before, s[Len(s)])

more_frequent(a, b) == a.count > b.count

\* sort_values(..., ascending=False)
label_after(a, b) == str_lt(b.label, a.label)

label_before(a, b) == str_lt(a.label, b.label)

\* Insertion sort of rows by "count" (the most frequent first) or by
\* "label" (ascending): each row is put after every row that does not come
\* after it, so rows that compare equal keep their order.
sort_rows(rows, by) ==
    LET before(a, b) == IF by = "label" THEN label_before(a, b) ELSE more_frequent(a, b)
        RECURSIVE insert(_, _)
        insert(r, sorted) ==
            IF sorted = << >> THEN << r >>
            ELSE IF before(r, Head(sorted)) THEN << r >> \o sorted
            ELSE << Head(sorted) >> \o insert(r, Tail(sorted))
        RECURSIVE sort(_)
        sort(rs) ==
            IF rs = << >> THEN << >>
            ELSE insert(rs[Len(rs)], sort(SubSeq(rs, 1, Len(rs) - 1)))
    IN  sort(rows)

\* Series.value_counts().reset_index(): one row per distinct value, the
\* most frequent first, NA values left out.
value_counts(s) ==
    LET kept == dropna(s)
        labels == unique(kept)
        rows == [i \in DOMAIN labels |->
                    [label |-> labels[i], count |-> Occurrences(kept, labels[i])]]
    IN  sort_rows(rows, "count")

\* The sort left out: the rows stay in the order of value_counts.
sort_values_skipped(rows) == rows

\* DataFrame.sort_values(<label column>).reset_index(drop=True)
sort_values(rows) == sort_rows(rows, "label")

\* process_os_summary with the policy of the other two functions
os_summary_dropping(os_column) ==
    sort_values(value_counts(dropna(replace_nulls(cleaned(os_column), NA))))

\* The table process_os_summary writes for os_column.
os_summary(os_column) ==
    sort_values(value_counts(replace_nulls(cleaned(os_column), Unknown)))

\* The table process_hostname_summary writes for hostname_column.
hostname_summary(hostname_column) ==
    sort_values(value_counts(dropna(replace_nulls(cleaned(hostname_column), NA))))

\* The table process_vulnerability_summary writes for vuln_column.
vuln_summary(vuln_column) ==
    sort_values(value_counts(dropna(replace_nulls(cleaned(vuln_column), NA))))

-----------------------------------------------------------------------------
(* The loader: pd.read_csv with its default arguments. *)

\* The cell texts read_csv takes for a missing value (its default na_values).
STR_NA_VALUES ==
    { << >>,
      << "#", "N", "/", "A" >>,
      << "#", "N", "/", "A", " ", "N", "/", "A" >>,
      << "#", "N", "A" >>,
      << "-", "1", ".", "#", "I", "N", "D" >>,
      << "-", "1", ".", "#", "Q", "N", "A", "N" >>,
      << "-", "N", "a", "N" >>,
      << "-", "n", "a", "n" >>,
      << "1", ".", "#", "I", "N", "D" >>,
      << "1", ".", "#", "Q", "N", "A", "N" >>,
      << "<", "N", "A", ">" >>,
      << "N", "/", "A" >>,
      << "N", "A" >>,
      << "N", "U", "L", "L" >>,
      << "N", "a", "N" >>,
      << "N", "o", "n", "e" >>,
      << "n", "/", "a" >>,
      << "n", "a", "n" >>,
      << "n", "u", "l", "l" >> }

Digits == {"0", "1", "2", "3", "4", "5", "6", "7", "8", "9"}

\* The cell is an unsigned decimal integer literal.
is_integer(cell) == cell # << >> /\ \A i \in DOMAIN cell : cell[i] \in Digits

DigitValue(c) == ord(c) - ord("0")

\* int(cell) of an integer literal; leading zeros do not count.
RECURSIVE parse_int(_)
parse_int(cell) ==
    IF cell = << >> THEN 0
    ELSE 10 * parse_int(SubSeq(cell, 1, Len(cell) - 1)) + DigitValue(cell[Len(cell)])

\* The Series read_csv makes of one column of cell texts.  The header line
\* is not modelled: the columns are taken by position (lines 61-63).  The dtype is
\* inferred from the whole column: int64 when every cell is an integer
\* literal; float64 when every cell is an integer literal or a missing
\* value; object otherwise, the texts kept as they are.  A missing value is
\* the float NaN in every dtype.
read_csv_column(cells) ==
    LET missing(c) == c \in STR_NA_VALUES
        all_int == \A i \in DOMAIN cells : is_integer(cells[i])
        all_num == \A i \in DOMAIN cells : is_integer(cells[i]) \/ missing(cells[i])
    IN  [i \in DOMAIN cells |->
            IF missing(cells[i]) THEN NaN
            ELSE IF all_int THEN IntValue(parse_int(cells[i]))
            ELSE IF all_num THEN FloatValue(parse_int(cells[i]))
            ELSE StrValue(cells[i])]

\* pd.Series(dtype=str)
EmptySeries == << >>

\* Column C, column E and column H, zero-based.
HostnameColumn == 2
OsColumn == 4
VulnColumn == 7
ExpectedColumns == 8

TargetColumns == {HostnameColumn, OsColumn, VulnColumn}

\* The column is taken only from a table of the expected width.
select_column_full_width(f, index) ==
    IF f.ncols >= ExpectedColumns THEN read_csv_column(f.columns[index]) ELSE EmptySeries

\* df.iloc[:, index] if len(df.columns) > index else pd.Series(dtype=str)
select_column(f, index) ==
    IF f.ncols > index THEN read_csv_column(f.columns[index]) ELSE EmptySeries

-----------------------------------------------------------------------------
(* Report files. *)

\* The value a summary function returns when the write failed.
None == << "None" >>

\* The date of the model's runs, as %Y%m%d prints it.
Today == << "2", "0", "2", "5", "0", "1", "0", "1" >>

\* strftime("%Y%m%d_%H%M"): the seconds left out
strftime_minutes(seconds) ==
    Today \o << "_" >>
          \o two_digits(seconds \div 3600)
          \o two_digits((seconds \div 60) % 60)

\* datetime.now().strftime("%Y%m%d_%H%M%S") when the wall clock reads
\* `seconds` seconds after midnight of Today.
strftime(seconds) ==
    Today \o << "_" >>
          \o two_digits(seconds \div 3600)
          \o two_digits((seconds \div 60) % 60)
          \o two_digits(seconds % 60)

\* f'os_summary_{timestamp}.csv'
os_filename(ts) == << "o", "s", "_", "s", "u", "m", "m", "a", "r", "y", "_" >> \o ts \o << ".", "c", "s", "v" >>

\* f'hostname_summary_{timestamp}.csv'
hostname_filename(ts) == << "h", "o", "s", "t", "n", "a", "m", "e", "_", "s", "u", "m", "m", "a", "r", "y", "_" >> \o ts \o << ".", "c", "s", "v" >>

\* f'vuln_{timestamp}.csv'
vuln_filename(ts) == << "v", "u", "l", "n", "_" >> \o ts \o << ".", "c", "s", "v" >>

OsHeader == << "Operating System", "Count" >>
HostnameHeader == << "Hostname", "Count" >>
VulnHeader == << "Vulnerability", "Count" >>

\* DataFrame.to_csv(output_path, index=False) when the write succeeds: the
\* file at output_path is created or replaced.  Beside its content, a file
\* records the run that wrote it, the clock reading that run captured and
\* how many times its path has been written.
to_csv(files, output_path, header, rows) ==
    LET replaced == {f \in files : f.path = output_path}
    IN  (files \ replaced)
            \cup {[path |-> output_path, header |-> header, rows |-> rows,
                   run |-> run, captured |-> now,
                   writes |-> 1 + Cardinality(replaced)]}

-----------------------------------------------------------------------------
(* Inputs. *)

\* The cell texts of the input files.
Cells ==
    { << "0", "0", "7" >>,
      << "1" >>,
      << >>,
      << " ", "L", "i", "n", "u", "x", " " >>,
      << "n", "/", "a" >> }

\* The cell texts of column E of the input files.
OsCells ==
    { << >>,
      << " ", "L", "i", "n", "u", "x", " " >>,
      << "n", "/", "a" >> }

\* The values of the columns handed directly to the summary functions.
RawValues ==
    {StrValue(t) : t \in
        { << >>,
          << " ", "\t" >>,
          << "n", "a", "n" >>,
          << "N", "a", "N" >>,
          << "n", "u", "l", "l" >>,
          << "N", "U", "L", "L" >>,
          << "n", "/", "a" >>,
          << "N", "u", "l", "l" >>,
          << "N", "A", "N" >>,
          << "N", "o", "n", "e" >>,
          << "L", "i", "n", "u", "x" >>,
          << " ", "l", "i", "n", "u", "x", " " >>,
          << "l", "i", "n", "u", "x" >>,
          << "U", "n", "k", "n", "o", "w", "n" >> }}
        \cup {NaN}

\* Nothing at input_file_path.
MissingFile == [exists |-> FALSE, parseable |-> FALSE, ncols |-> 0, columns |-> << >>]

\* A file read_csv cannot parse.
BrokenFile == [exists |-> TRUE, parseable |-> FALSE, ncols |-> 0, columns |-> << >>]

\* A comma-delimited file of ncols columns: a header line, then the rows.
\* Only the cells of the target columns are kept; columns C and H hold the
\* cells `outer`, column E holds the cells `inner`.
CsvFile(ncols, outer, inner) ==
    [exists |-> TRUE, parseable |-> TRUE, ncols |-> ncols,
     columns |-> [c \in {t \in TargetColumns : t < ncols} |->
                    IF c = OsColumn THEN inner ELSE outer]]

\* Widths on both sides of each target column and of the expected width.
Widths == {HostnameColumn, HostnameColumn + 1, OsColumn + 1, ExpectedColumns,
           ExpectedColumns + 1}

CsvFiles ==
    {CsvFile(w, outer, inner) :
        w \in Widths,
        outer \in SeqsUpTo(Cells, MaxRows),
        inner \in SeqsUpTo(OsCells, MaxRows)}

InputFiles == {MissingFile, BrokenFile} \cup {f \in CsvFiles :
    \A c, d \in DOMAIN f.columns : Len(f.columns[c]) = Len(f.columns[d])}

-----------------------------------------------------------------------------
(* The run. *)

\* The state of a process that has just entered main.
Entered ==
    /\ pc = "main"
    /\ now = 0
    /\ timestamp = << >>
    /\ hostnames = << >>
    /\ operating_systems = << >>
    /\ vulnerabilities = << >>
    /\ os_counts = << >>
    /\ hostname_counts = << >>
    /\ vuln_counts = << >>
    /\ os_summary_path = None
    /\ hostname_summary_path = None
    /\ vuln_summary_path = None
    /\ invoked = {}
    /\ printed = {}
    /\ success = "unset"
    /\ exit_code = "running"

\* The program is started at 00:00:59 of Today, before any report exists.
Init ==
    /\ Entered
    /\ file \in InputFiles
    /\ clock = 59
    /\ run = 1
    /\ disk = {}

\* process_csv_file, lines 33-35: the input path does not exist.
InputNotFound ==
    /\ pc = "main"
    /\ ~file.exists
    /\ success' = FALSE
    /\ pc' = "returned"
    /\ UNCHANGED << file, clock, run, now, timestamp, hostnames, operating_systems,
                    vulnerabilities, os_counts, hostname_counts, vuln_counts,
                    os_summary_path, hostname_summary_path, vuln_summary_path,
                    invoked, printed, exit_code, disk >>

\* process_csv_file, lines 37-47: the output directory is made and the
\* timestamp of the run is taken.
TakeTimestamp ==
    /\ pc = "main"
    /\ file.exists
    /\ now' = clock
    /\ timestamp' = strftime(clock)
    /\ pc' = "read_csv"
    /\ UNCHANGED << file, clock, run, hostnames, operating_systems,
                    vulnerabilities, os_counts, hostname_counts, vuln_counts,
                    os_summary_path, hostname_summary_path, vuln_summary_path,
                    invoked, printed, success, exit_code, disk >>

\* read_csv raises and the run goes on to the summaries.
LoadError_ignored ==
    /\ pc = "read_csv"
    /\ ~file.parseable
    /\ pc' = "os"
    /\ UNCHANGED << file, clock, run, now, timestamp, hostnames, operating_systems,
                    vulnerabilities, os_counts, hostname_counts, vuln_counts,
                    os_summary_path, hostname_summary_path, vuln_summary_path,
                    invoked, printed, success, exit_code, disk >>

\* process_csv_file, line 52 and lines 87-89: read_csv raises.
LoadError ==
    /\ pc = "read_csv"
    /\ ~file.parseable
    /\ success' = FALSE
    /\ pc' = "returned"
    /\ UNCHANGED << file, clock, run, now, timestamp, hostnames, operating_systems,
                    vulnerabilities, os_counts, hostname_counts, vuln_counts,
                    os_summary_path, hostname_summary_path, vuln_summary_path,
                    invoked, printed, exit_code, disk >>

\* process_csv_file, lines 52-63: the table is loaded and the three
\* columns are taken from it.
Load ==
    /\ pc = "read_csv"
    /\ file.parseable
    /\ hostnames' = select_column(file, HostnameColumn)
    /\ operating_systems' = select_column(file, OsColumn)
    /\ vulnerabilities' = select_column(file, VulnColumn)
    /\ pc' = "os"
    /\ UNCHANGED << file, clock, run, now, timestamp, os_counts, hostname_counts,
                    vuln_counts, os_summary_path, hostname_summary_path,
                    vuln_summary_path, invoked, printed, success, exit_code, disk >>

\* process_csv_file, line 67: process_os_summary.  `written` tells whether
\* to_csv succeeds (lines 124-126) or raises (lines 127-129).
ProcessOsSummary(written) ==
    /\ pc = "os"
    /\ LET table == os_summary(operating_systems)
           output_path == os_filename(timestamp)
       IN  /\ os_counts' = table
           /\ IF written
              THEN /\ disk' = to_csv(disk, output_path, OsHeader, table)
                   /\ os_summary_path' = output_path
              ELSE /\ disk' = disk
                   /\ os_summary_path' = None
    /\ invoked' = invoked \cup {"process_os_summary"}
    /\ pc' = "hostname"
    /\ UNCHANGED << file, clock, run, now, timestamp, hostnames, operating_systems,
                    vulnerabilities, hostname_counts, vuln_counts,
                    hostname_summary_path, vuln_summary_path, printed, success,
                    exit_code >>

\* process_hostname_summary without its try/except: a failed write raises
\* into process_csv_file, which returns False.
ProcessHostnameSummary_unguarded(written) ==
    /\ pc = "hostname"
    /\ hostname_counts' = hostname_summary(hostnames)
    /\ IF written
       THEN /\ disk' = to_csv(disk, hostname_filename(timestamp), HostnameHeader,
                              hostname_summary(hostnames))
            /\ hostname_summary_path' = hostname_filename(timestamp)
            /\ pc' = "vuln"
            /\ success' = success
       ELSE /\ disk' = disk
            /\ hostname_summary_path' = None
            /\ pc' = "returned"
            /\ success' = FALSE
    /\ invoked' = invoked \cup {"process_hostname_summary"}
    /\ UNCHANGED << file, clock, run, now, timestamp, hostnames, operating_systems,
                    vulnerabilities, os_counts, vuln_counts, os_summary_path,
                    vuln_summary_path, printed, exit_code >>

\* process_csv_file, line 71: process_hostname_summary.
ProcessHostnameSummary(written) ==
    /\ pc = "hostname"
    /\ LET table == hostname_summary(hostnames)
           output_path == hostname_filename(timestamp)
       IN  /\ hostname_counts' = table
           /\ IF written
              THEN /\ disk' = to_csv(disk, output_path, HostnameHeader, table)
                   /\ hostname_summary_path' = output_path
              ELSE /\ disk' = disk
                   /\ hostname_summary_path' = None
    /\ invoked' = invoked \cup {"process_hostname_summary"}
    /\ pc' = "vuln"
    /\ UNCHANGED << file, clock, run, now, timestamp, hostnames, operating_systems,
                    vulnerabilities, os_counts, vuln_counts, os_summary_path,
                    vuln_summary_path, printed, success, exit_code >>

\* process_csv_file, line 75: process_vulnerability_summary.
ProcessVulnerabilitySummary(written) ==
    /\ pc = "vuln"
    /\ LET table == vuln_summary(vulnerabilities)
           output_path == vuln_filename(timestamp)
       IN  /\ vuln_counts' = table
           /\ IF written
              THEN /\ disk' = to_csv(disk, output_path, VulnHeader, table)
                   /\ vuln_summary_path' = output_path
              ELSE /\ disk' = disk
                   /\ vuln_summary_path' = None
    /\ invoked' = invoked \cup {"process_vulnerability_summary"}
    /\ pc' = "report"
    /\ UNCHANGED << file, clock, run, now, timestamp, hostnames, operating_systems,
                    vulnerabilities, os_counts, hostname_counts, os_summary_path,
                    hostname_summary_path, printed, success, exit_code >>

\* process_csv_file, lines 77-85: the paths that were returned are listed
\* and the function returns True.
ReportSuccess ==
    /\ pc = "report"
    /\ printed' = {os_summary_path, hostname_summary_path, vuln_summary_path} \ {None}
    /\ success' = TRUE
    /\ pc' = "returned"
    /\ UNCHANGED << file, clock, run, now, timestamp, hostnames, operating_systems,
                    vulnerabilities, os_counts, hostname_counts, vuln_counts,
                    os_summary_path, hostname_summary_path, vuln_summary_path,
                    invoked, exit_code, disk >>

\* main, lines 241-245: sys.exit(1) unless process_csv_file returned True.
Exit ==
    /\ pc = "returned"
    /\ exit_code' = IF success = TRUE THEN 0 ELSE 1
    /\ pc' = "exited"
    /\ UNCHANGED << file, clock, run, now, timestamp, hostnames, operating_systems,
                    vulnerabilities, os_counts, hostname_counts, vuln_counts,
                    os_summary_path, hostname_summary_path, vuln_summary_path,
                    invoked, printed, success, disk >>

\* One invocation of the program.
Next ==
    \/ InputNotFound
    \/ TakeTimestamp
    \/ LoadError
    \/ Load
    \/ \E written \in BOOLEAN : ProcessOsSummary(written)
    \/ \E written \in BOOLEAN : ProcessHostnameSummary(written)
    \/ \E written \in BOOLEAN : ProcessVulnerabilitySummary(written)
    \/ ReportSuccess
    \/ Exit

Spec == Init /\ [][Next]_vars

-----------------------------------------------------------------------------
(* The summary functions called directly on one column. *)

InitSummary ==
    /\ \E column \in SeqsUpTo(RawValues, MaxLen) :
          /\ hostnames = column
          /\ operating_systems = column
          /\ vulnerabilities = column
    /\ pc = "os"
    /\ file = MissingFile
    /\ clock = 59
    /\ now = clock
    /\ timestamp = strftime(clock)
    /\ run = 1
    /\ os_counts = << >>
    /\ hostname_counts = << >>
    /\ vuln_counts = << >>
    /\ os_summary_path = None
    /\ hostname_summary_path = None
    /\ vuln_summary_path = None
    /\ invoked = {}
    /\ printed = {}
    /\ success = "unset"
    /\ exit_code = "running"
    /\ disk = {}

\* Each function is applied to the column, and its file is written.
NextSummary ==
    \/ ProcessOsSummary(TRUE)
    \/ ProcessHostnameSummary(TRUE)
    \/ ProcessVulnerabilitySummary(TRUE)

SpecSummary == InitSummary /\ [][NextSummary]_vars

-----------------------------------------------------------------------------
(* Several invocations of the program into one output directory. *)

RerunFiles ==
    {MissingFile, BrokenFile}
        \cup {CsvFile(w, << << " ", "L", "i", "n", "u", "x", " " >> >>, << << "0", "0", "7" >> >>) :
                w \in {OsColumn + 1, ExpectedColumns}}

InitRuns ==
    /\ Entered
    /\ file \in RerunFiles
    /\ clock = 59
    /\ run = 1
    /\ disk = {}

\* A second of wall-clock time passes.
Tick ==
    /\ clock < 59 + MaxClock
    /\ clock' = clock + 1
    /\ UNCHANGED << pc, file, run, now, timestamp, hostnames, operating_systems,
                    vulnerabilities, os_counts, hostname_counts, vuln_counts,
                    os_summary_path, hostname_summary_path, vuln_summary_path,
                    invoked, printed, success, exit_code, disk >>

\* The program is invoked again, with the same output directory.
Invoke ==
    /\ pc = "exited"
    /\ run < MaxRuns
    /\ run' = run + 1
    /\ file' \in RerunFiles
    /\ pc' = "main"
    /\ now' = 0
    /\ timestamp' = << >>
    /\ hostnames' = << >>
    /\ operating_systems' = << >>
    /\ vulnerabilities' = << >>
    /\ os_counts' = << >>
    /\ hostname_counts' = << >>
    /\ vuln_counts' = << >>
    /\ os_summary_path' = None
    /\ hostname_summary_path' = None
    /\ vuln_summary_path' = None
    /\ invoked' = {}
    /\ printed' = {}
    /\ success' = "unset"
    /\ exit_code' = "running"
    /\ UNCHANGED << clock, disk >>

NextRuns ==
    \/ Next
    \/ Tick
    \/ Invoke

SpecRuns == InitRuns /\ [][NextRuns]_vars

-----------------------------------------------------------------------------
(* The terms of the properties. *)

\* The trimmed text of a raw value.
TrimmedText(v) == strip(astype_str(v))

\* The null-like texts.
NullLikeTexts ==
    { << >>, << "n", "a", "n" >>, << "N", "a", "N" >>, << "n", "u", "l", "l" >>, << "N", "U", "L", "L" >> }

NullLike(v) == TrimmedText(v) \in NullLikeTexts

Labels(table) == {table[i].label : i \in DOMAIN table}

\* The labels of a table, in the order of its rows.
LabelColumn(table) == [i \in DOMAIN table |-> table[i].label]

RECURSIVE SumOfCounts(_)
SumOfCounts(table) ==
    IF table = << >> THEN 0 ELSE Head(table).count + SumOfCounts(Tail(table))

Positions(column, texts) == {i \in DOMAIN column : TrimmedText(column[i]) \in texts}

\* The count table of a column under DROP, as a set of rows.
DropTable(column) ==
    {[label |-> t, count |-> Cardinality(Positions(column, {t}))] :
        t \in {TrimmedText(column[i]) : i \in DOMAIN column} \ NullLikeTexts}

\* The count table of a column under REPLACE_WITH_UNKNOWN, as a set of rows.
ReplaceTable(column) ==
    LET unknown == Positions(column, NullLikeTexts \cup {Unknown})
    IN  {r \in DropTable(column) : r.label # Unknown}
            \cup (IF unknown = {} THEN {}
                  ELSE {[label |-> Unknown, count |-> Cardinality(unknown)]})

\* The table holds exactly the rows, each once.
HoldsRows(table, rows) == Range(table) = rows /\ Len(table) = Cardinality(rows)

\* All three summary functions have returned.
Summarized == pc = "report"

\* The columns got from a column by exchanging two of its values.  Every
\* rearrangement of a column is a succession of such exchanges.
Exchanges(column) ==
    {[column EXCEPT ![p[1]] = column[p[2]], ![p[2]] = column[p[1]]] :
        p \in {q \in (DOMAIN column) \X (DOMAIN column) : q[1] < q[2]}}

-----------------------------------------------------------------------------
(* Properties of the summary functions (SpecSummary). *)

\* C1: each summary is the count table of its column: under DROP (hostname,
\* vulnerability) one row per distinct non-null-like trimmed value with its
\* number of occurrences; under REPLACE_WITH_UNKNOWN (operating system) the
\* same rows and a row "Unknown" counting the null-like values and the
\* values that trim to "Unknown".  Labels are not case-folded.
C1_SummaryIsCountTable ==
    Summarized =>
        /\ HoldsRows(os_counts, ReplaceTable(operating_systems))
        /\ HoldsRows(hostname_counts, DropTable(hostnames))
        /\ HoldsRows(vuln_counts, DropTable(vulnerabilities))

\* A column with a null-like value and two different raw values of one
\* trimmed text has been summarized by all three functions.
C1_Witness ==
    /\ pc = "report"
    /\ \E i, j, k \in DOMAIN operating_systems :
          /\ NullLike(operating_systems[i])
          /\ operating_systems[j] # operating_systems[k]
          /\ TrimmedText(operating_systems[j]) = TrimmedText(operating_systems[k])
          /\ ~NullLike(operating_systems[j])
    /\ Len(os_counts) = 2
    /\ Len(hostname_counts) = 1

\* C2: the counts of a summary add up to the number of non-null-like
\* values under DROP and to the number of rows under REPLACE_WITH_UNKNOWN,
\* and every count is at least 1.
C2_CountsAddUp ==
    Summarized =>
        /\ SumOfCounts(os_counts) = Len(operating_systems)
        /\ SumOfCounts(hostname_counts)
              = Cardinality({i \in DOMAIN hostnames : ~NullLike(hostnames[i])})
        /\ SumOfCounts(vuln_counts)
              = Cardinality({i \in DOMAIN vulnerabilities : ~NullLike(vulnerabilities[i])})
        /\ \A i \in DOMAIN os_counts : os_counts[i].count >= 1
        /\ \A i \in DOMAIN hostname_counts : hostname_counts[i].count >= 1
        /\ \A i \in DOMAIN vuln_counts : vuln_counts[i].count >= 1

\* A column of null-like and other values has been summarized: the
\* operating-system counts cover more rows than the other two.
C2_Witness ==
    /\ pc = "report"
    /\ Len(operating_systems) = MaxLen
    /\ SumOfCounts(os_counts) = MaxLen
    /\ SumOfCounts(vuln_counts) = 1
    /\ SumOfCounts(hostname_counts) = 1

\* C3: a value is treated as null-like (left out by the hostname and
\* vulnerability summaries, counted under "Unknown" by the operating-system
\* summary) exactly when its trimmed text is "", "nan", "NaN", "null" or
\* "NULL"; every other value, "n/a", "Null", "NAN" and "None" among them, is
\* counted under its own trimmed text by all three.
C3_NullLikeTokens ==
    Summarized =>
        /\ \A i \in DOMAIN operating_systems :
              LET t == TrimmedText(operating_systems[i])
              IN  IF t \in NullLikeTexts
                  THEN Unknown \in Labels(os_counts) /\ t \notin Labels(os_counts)
                  ELSE t \in Labels(os_counts)
        /\ \A i \in DOMAIN hostnames :
              TrimmedText(hostnames[i]) \in Labels(hostname_counts)
                  <=> TrimmedText(hostnames[i]) \notin NullLikeTexts
        /\ \A i \in DOMAIN vulnerabilities :
              TrimmedText(vulnerabilities[i]) \in Labels(vuln_counts)
                  <=> TrimmedText(vulnerabilities[i]) \notin NullLikeTexts

\* A whitespace-only value, "NULL" and "n/a" have been summarized together.
C3_Witness ==
    /\ pc = "report"
    /\ StrValue(<< " ", "\t" >>) \in Range(vulnerabilities)
    /\ StrValue(<< "N", "U", "L", "L" >>) \in Range(vulnerabilities)
    /\ StrValue(<< "n", "/", "a" >>) \in Range(vulnerabilities)
    /\ Labels(vuln_counts) = {<< "n", "/", "a" >>}
    /\ Labels(os_counts) = {Unknown, << "n", "/", "a" >>}

StrictlyAscending(table) ==
    \A i \in 1..(Len(table) - 1) : str_lt(table[i].label, table[i + 1].label)

\* C5: the rows of every summary are in strictly ascending order of label
\* by code point, so no two rows share a label.
C5_RowsAscending ==
    /\ StrictlyAscending(os_counts)
    /\ StrictlyAscending(hostname_counts)
    /\ StrictlyAscending(vuln_counts)

\* Uppercase labels come before a lowercase one in a written summary.
C5_Witness ==
    /\ pc = "report"
    /\ LabelColumn(os_counts) = << << "L", "i", "n", "u", "x" >>, Unknown, << "l", "i", "n", "u", "x" >> >>
    /\ Len(hostname_counts) = 2

\* C9: the summary does not depend on the order of the rows: exchanging
\* any two values of the column gives the summary that was produced, row
\* for row (every column up to the bound is summarized, so this covers each
\* rearrangement, one exchange after the other).
C9_OrderIndependent ==
    Summarized =>
        /\ \A c \in Exchanges(operating_systems) : os_summary(c) = os_counts
        /\ \A c \in Exchanges(hostnames) : hostname_summary(c) = hostname_counts
        /\ \A c \in Exchanges(vulnerabilities) : vuln_summary(c) = vuln_counts

\* A column that is not in the order of its summary, and whose values do
\* not all occur equally often, has been summarized.
C9_Witness ==
    /\ pc = "report"
    /\ Len(vuln_counts) = 2
    /\ vuln_counts[1].count < vuln_counts[2].count
    /\ TrimmedText(vulnerabilities[1]) = vuln_counts[2].label
    /\ Cardinality(Exchanges(vulnerabilities)) >= 2

-----------------------------------------------------------------------------
(* Properties of a run (Spec). *)

\* The table has been loaded.
Loaded == file.parseable /\ pc \notin {"main", "read_csv"}

\* The Series taken from a target column.
SeriesOf(c) ==
    CASE c = HostnameColumn -> hostnames
      [] c = OsColumn -> operating_systems
      [] c = VulnColumn -> vulnerabilities

\* C4: the loader hands over the text of every cell as it is written in the
\* file: for every non-empty cell of columns 2, 4 and 7, the value the
\* summary function counts is the cell's text, trimmed.
C4_CellsKeepTheirText ==
    Loaded =>
        \A c \in DOMAIN file.columns :
            \A i \in DOMAIN file.columns[c] :
                file.columns[c][i] # << >>
                    => TrimmedText(SeriesOf(c)[i]) = strip(file.columns[c][i])

Returned == pc \in {"returned", "exited"}

\* The file at a returned path holds the header and the rows.
Holds(path, header, rows) ==
    \E f \in disk : f.path = path /\ f.header = header /\ f.rows = rows /\ f.run = run

\* What a target column of the file gives when the table is wide enough.
WideSeries(c) == read_csv_column(file.columns[c])

\* C6: a table of fewer than 8 columns does not fail the run: the report
\* of a target column beyond the width is the empty table, header only;
\* a target column inside the width is summarized as in a table of 8
\* columns or more; process_csv_file returns success.
C6_NarrowTable ==
    (Returned /\ file.parseable /\ file.ncols < ExpectedColumns) =>
        /\ success = TRUE
        /\ pc = "exited" => exit_code = 0
        /\ hostname_counts = IF HostnameColumn < file.ncols
                              THEN hostname_summary(WideSeries(HostnameColumn))
                              ELSE << >>
        /\ os_counts = IF OsColumn < file.ncols
                        THEN os_summary(WideSeries(OsColumn))
                        ELSE << >>
        /\ vuln_counts = IF VulnColumn < file.ncols
                          THEN vuln_summary(WideSeries(VulnColumn))
                          ELSE << >>
        /\ hostname_summary_path # None
              => Holds(hostname_summary_path, HostnameHeader, hostname_counts)
        /\ os_summary_path # None => Holds(os_summary_path, OsHeader, os_counts)
        /\ vuln_summary_path # None => Holds(vuln_summary_path, VulnHeader, vuln_counts)

\* A table of 5 columns has been processed: the vulnerability report is
\* written with its header only, the other two have rows.
C6_Witness ==
    /\ pc = "exited"
    /\ file.ncols = OsColumn + 1
    /\ Holds(vuln_summary_path, VulnHeader, << >>)
    /\ os_counts # << >>
    /\ hostname_counts # << >>
    /\ exit_code = 0

AllSummaries ==
    {"process_os_summary", "process_hostname_summary", "process_vulnerability_summary"}

\* C7: when the input path does not exist or the file fails to load, the
\* run fails: process_csv_file returns failure, the exit code is 1, no
\* summary function is invoked and no report file is created; a summary
\* function is invoked only after a successful load.
C7_LoadFailureIsFatal ==
    /\ (~file.exists \/ ~file.parseable) =>
          /\ invoked = {}
          /\ \A f \in disk : f.run # run
          /\ Returned => success = FALSE
          /\ pc = "exited" => exit_code = 1
    /\ invoked # {} => Loaded

\* A file that exists and cannot be parsed has ended the run.
C7_Witness ==
    /\ pc = "exited"
    /\ file = BrokenFile
    /\ timestamp # << >>
    /\ exit_code = 1

\* C8: after a successful load a failed write is local: whichever writes
\* fail, every report is computed, each report whose write succeeded is on
\* disk, a failed write returns no path and is left out of the success
\* summary, and process_csv_file returns success (exit code 0).
C8_WriteFailureIsLocal ==
    (Returned /\ file.parseable) =>
        /\ success = TRUE
        /\ pc = "exited" => exit_code = 0
        /\ invoked = AllSummaries
        /\ os_counts = os_summary(operating_systems)
        /\ hostname_counts = hostname_summary(hostnames)
        /\ vuln_counts = vuln_summary(vulnerabilities)
        /\ os_summary_path # None => Holds(os_summary_path, OsHeader, os_counts)
        /\ hostname_summary_path # None
              => Holds(hostname_summary_path, HostnameHeader, hostname_counts)
        /\ vuln_summary_path # None => Holds(vuln_summary_path, VulnHeader, vuln_counts)
        /\ printed = {q \in {os_summary_path, hostname_summary_path, vuln_summary_path} :
                          q # None}
        /\ \A f \in disk : f.path \in printed

\* The hostname write failed, the other two reports are on disk, and the
\* program has ended with exit code 0.
C8_Witness ==
    /\ pc = "exited"
    /\ exit_code = 0
    /\ hostname_summary_path = None
    /\ hostname_counts # << >>
    /\ Cardinality(printed) = 2
    /\ Cardinality(disk) = 2

-----------------------------------------------------------------------------
(* Properties of successive runs (SpecRuns). *)

\* C10, in every state: once taken (a run whose input path does not exist
\* returns before taking one, and has no report path), the timestamp is the
\* text of the clock reading the run captured; every returned path is the
\* report's name with that timestamp; the three names are different; the
\* load comes after.
C10_PathsShareTimestamp ==
    /\ pc \notin {"main"} /\ file.exists => timestamp = strftime(now)
    /\ Loaded => timestamp # << >>
    /\ os_summary_path \in {None, os_filename(strftime(now))}
    /\ hostname_summary_path \in {None, hostname_filename(strftime(now))}
    /\ vuln_summary_path \in {None, vuln_filename(strftime(now))}
    /\ os_filename(timestamp) # hostname_filename(timestamp)
    /\ os_filename(timestamp) # vuln_filename(timestamp)
    /\ hostname_filename(timestamp) # vuln_filename(timestamp)
    /\ \A f \in disk : f.run = run => f.captured = now

\* C10, in every step: the timestamp of a run does not change once taken,
\* and a file of an earlier run is replaced only by a run that captured
\* the same clock second.
C10_StepKeepsFiles ==
    /\ (pc # "main" /\ pc' # "main") => (timestamp' = timestamp /\ now' = now)
    /\ \A f \in disk : (f \notin disk' /\ f.run < run') => f.captured = now'

\* C10: the timestamp is captured once, before the load; the three report
\* paths carry it and are pairwise distinct; a later run overwrites a file
\* of an earlier run only when both captured the same clock second.
C10_TimestampedReports == [](C10_PathsShareTimestamp) /\ [][C10_StepKeepsFiles]_vars

\* A second run that captured the clock second of the first has replaced
\* the first run's vulnerability report, and the first run's hostname
\* report is still there; the clock has moved on since the capture.
C10_Witness ==
    /\ run = 2
    /\ pc = "exited"
    /\ clock > now
    /\ \E f \in disk : f.run = 2 /\ f.writes = 2 /\ f.path = vuln_summary_path
    /\ \E f \in disk : f.run = 1 /\ f.header = HostnameHeader

====
